---------------------------- MODULE Spec2Model ----------------------------
(*************************************************************************)
(* A model of exif_extract.py: the constructor ExifExtract.__init__      *)
(* (the per-file extraction loop, the GPS conversion and the running     *)
(* union of the field headings), its caller in the command line script,  *)
(* and ExifExtract.write_csv.                                            *)
(*                                                                       *)
(* Text is a sequence of one-character strings.  A decoded value is a    *)
(* record tagged by its Python type, and Str models str() on it.  A      *)
(* float is an exact sign/numerator/denominator fraction, so that -0.0   *)
(* and 0.0 stay distinct; rounding of binary floating point is not       *)
(* modelled.  The alias table and pretty_print_exif are not modelled;    *)
(* write_csv is modelled with use_aliases = False.                       *)
(*************************************************************************)
EXTENDS Integers, Sequences, FiniteSets, TLC

VARIABLES
    infilenames,     \* the argument of ExifExtract(...): the files, in order
    idx,             \* number of loop iterations of __init__ completed
    opened,          \* indices of infilenames passed to open(), in order
    exif_table,      \* self.exif_table of the object under construction
    field_headings,  \* the local field_headings of __init__
    exif_data,       \* the caller's binding of the constructed object
    outfile,         \* the lines written by write_csv
    pc,              \* where the run is
    coords,          \* argument of a stand-alone gps_decimal_coords call
    ref,             \* argument of a stand-alone gps_decimal_coords call
    decimal_degrees  \* its return value

vars == <<infilenames, idx, opened, exif_table, field_headings, exif_data,
          outfile, pc, coords, ref, decimal_degrees>>

(*************************************************************************)
(* Bounds of the model.                                                  *)
(*************************************************************************)
MaxFiles == 3
MaxDeg == 3
MaxMin == 3
MaxSec == 3

(*************************************************************************)
(* Sequence helpers.                                                     *)
(*************************************************************************)
Range(s) == {s[i] : i \in 1..Len(s)}

RECURSIVE Gcd(_, _)
Gcd(a, b) == IF b = 0 THEN a ELSE Gcd(b, a % b)

(*************************************************************************)
(* Python floats, as exact fractions with a sign bit.                    *)
(*************************************************************************)
NoneValue == [t |-> "none"]

StrValue(s) == [t |-> "str", s |-> s]

TupleValue(c) == [t |-> "tuple", c |-> c]

Float(neg, num, den) ==
    LET g == Gcd(num, den)
    IN  [t |-> "float", neg |-> neg, num |-> num \div g, den |-> den \div g]

FloatOfInt(n) == Float(FALSE, n, 1)

\* x / n for a non-negative x and a positive integer n
FloatDiv(x, n) == Float(x.neg, x.num, x.den * n)

\* x + y for non-negative x and y
FloatAdd(x, y) == Float(FALSE, x.num * y.den + y.num * x.den, x.den * y.den)

\* -x: flips the sign bit, of zero too
FloatNeg(x) == [x EXCEPT !.neg = ~x.neg]

\* the sign turned for N and E instead of S and W
gps_decimal_coords_flipped(c, r) ==
    LET d == FloatAdd(FloatAdd(FloatOfInt(c[1]), FloatDiv(FloatOfInt(c[2]), 60)),
                      FloatDiv(FloatOfInt(c[3]), 3600))
    IN  IF r = StrValue(<<"N">>) \/ r = StrValue(<<"E">>) THEN FloatNeg(d) ELSE d

\* gps_decimal_coords(coords, ref), with ref a value of any type
gps_decimal_coords(c, r) ==
    LET d == FloatAdd(FloatAdd(FloatOfInt(c[1]), FloatDiv(FloatOfInt(c[2]), 60)),
                      FloatDiv(FloatOfInt(c[3]), 3600))
    IN  IF r = StrValue(<<"S">>) \/ r = StrValue(<<"W">>) THEN FloatNeg(d) ELSE d


(*************************************************************************)
(* str() of a decoded value.                                             *)
(*************************************************************************)
DigitChars == <<"0", "1", "2", "3", "4", "5", "6", "7", "8", "9">>

RECURSIVE Digits(_)
Digits(n) ==
    IF n < 10 THEN <<DigitChars[n + 1]>>
    ELSE Append(Digits(n \div 10), DigitChars[(n % 10) + 1])

\* the decimal expansion of r/den (r < den), which is what repr() prints
\* when the expansion is short and exact, as it is for the halves and
\* quarters of a degree the modelled files hold
RECURSIVE FracDigits(_, _)
FracDigits(r, den) ==
    IF r = 0 THEN <<>>
    ELSE <<DigitChars[((r * 10) \div den) + 1]>> \o FracDigits((r * 10) % den, den)

StrFloat(x) ==
    LET whole == x.num \div x.den
        frac == FracDigits(x.num % x.den, x.den)
    IN  (IF x.neg THEN <<"-">> ELSE <<>>) \o Digits(whole) \o <<".">>
        \o (IF frac = <<>> THEN <<"0">> ELSE frac)

Str(v) ==
    CASE v.t = "str" -> v.s
      [] v.t = "none" -> <<"N", "o", "n", "e">>
      [] v.t = "float" -> StrFloat(v)
      [] v.t = "tuple" ->
            <<"(">> \o StrFloat(FloatOfInt(v.c[1])) \o <<",", " ">>
            \o StrFloat(FloatOfInt(v.c[2])) \o <<",", " ">>
            \o StrFloat(FloatOfInt(v.c[3])) \o <<")">>

(*************************************************************************)
(* Python's insertion-ordered dict: the keys in insertion order and the  *)
(* value of each.                                                        *)
(*************************************************************************)
DictSet(d, k, v) ==
    [keys |-> IF k \in Range(d.keys) THEN d.keys ELSE Append(d.keys, k),
     val  |-> (k :> v) @@ d.val]

DictHas(d, k) == k \in Range(d.keys)

\* list(dict.fromkeys(names))
RECURSIVE FromKeysFrom(_, _)
FromKeysFrom(acc, names) ==
    IF names = <<>> THEN acc
    ELSE FromKeysFrom(IF Head(names) \in Range(acc) THEN acc
                      ELSE Append(acc, Head(names)),
                      Tail(names))

FromKeys(names) == FromKeysFrom(<<>>, names)

(*************************************************************************)
(* The decoder (the exif library's Image): what each input file holds.   *)
(*************************************************************************)
\* the tag names of the modelled files, in the order sorted() gives them
Alphabet == <<"gps_latitude", "gps_latitude_ref", "gps_longitude",
              "gps_longitude_ref", "make", "model", "software">>

\* the names of the tags in reverse order
RECURSIVE Reverse(_)
Reverse(q) == IF q = <<>> THEN <<>> ELSE Append(Reverse(Tail(q)), Head(q))

Dir_unsorted(tags) == Reverse(SelectSeq(Alphabet, LAMBDA n : n \in DOMAIN tags))

\* dir(my_image): the names of the tags, sorted
Dir(tags) == SelectSeq(Alphabet, LAMBDA n : n \in DOMAIN tags)

NoTags == [n \in {} |-> NoneValue]

Quote == "\""

Unreadable(p) == [path |-> p, kind |-> "unreadable", tags |-> NoTags]

Corrupt(p) == [path |-> p, kind |-> "corrupt", tags |-> NoTags]

NoExif(p) == [path |-> p, kind |-> "noexif", tags |-> NoTags]

Exif(p, tags) == [path |-> p, kind |-> "exif", tags |-> tags]

FileA ==
    Exif(<<"A">>,
         "make" :> StrValue(<<"a", "b">>)
         @@ "gps_latitude" :> TupleValue(<<10, 30, 0>>)
         @@ "gps_latitude_ref" :> StrValue(<<"N">>)
         @@ "gps_longitude" :> TupleValue(<<20, 0, 0>>)
         @@ "gps_longitude_ref" :> StrValue(<<"W">>))

FileB ==
    Exif(<<"B">>,
         "make" :> StrValue(<<"a", ",", "b">>)
         @@ "model" :> StrValue(<<"a", Quote, "b">>))

FileC ==
    Exif(<<"C", ",", "c">>,
         "model" :> StrValue(<<Quote, ",", Quote>>)
         @@ "software" :> NoneValue)

FileLatNoRef ==
    Exif(<<"D">>,
         "gps_latitude" :> TupleValue(<<1, 0, 0>>)
         @@ "make" :> StrValue(<<"a">>))

FileLonNoRef ==
    Exif(<<"E">>,
         "gps_latitude" :> TupleValue(<<1, 0, 0>>)
         @@ "gps_latitude_ref" :> StrValue(<<"N">>)
         @@ "gps_longitude" :> TupleValue(<<2, 0, 0>>))

FileLatOnly ==
    Exif(<<"F">>,
         "gps_latitude" :> TupleValue(<<0, 0, 0>>)
         @@ "gps_latitude_ref" :> StrValue(<<"S">>))

FileLonOnly ==
    Exif(<<"G">>,
         "gps_longitude" :> TupleValue(<<7, 15, 0>>)
         @@ "gps_longitude_ref" :> NoneValue
         @@ "software" :> StrValue(<<Quote>>))

FileBare == Exif(<<"H">>, NoTags)

Files ==
    {Unreadable(<<"U">>), Corrupt(<<"X">>), NoExif(<<"Z">>),
     FileA, FileB, FileC, FileLatNoRef, FileLonNoRef, FileLatOnly,
     FileLonOnly, FileBare}

RECURSIVE SeqsUpTo(_, _)
SeqsUpTo(S, n) ==
    IF n = 0 THEN {<<>>}
    ELSE LET shorter == SeqsUpTo(S, n - 1)
         IN  shorter \cup {Append(s, x) : s \in shorter, x \in S}

(*************************************************************************)
(* ExifExtract.__init__: one file's record.                              *)
(*************************************************************************)
RECURSIVE CopyTags(_, _, _)
CopyTags(d, keys, tags) ==
    IF keys = <<>> THEN d
    ELSE CopyTags(DictSet(d, Head(keys), tags[Head(keys)]), Tail(keys), tags)

\* image_exif_data after the loop over dir(my_image)
RawRecord(f) ==
    CopyTags([keys |-> <<"filename">>, val |-> ("filename" :> StrValue(f.path))],
             Dir(f.tags), f.tags)

\* the subscript image_exif_data['gps_latitude_ref'] or
\* image_exif_data['gps_longitude_ref'] of a key the record does not have
RaisesKeyError(f) ==
    LET d == RawRecord(f)
    IN  \/ DictHas(d, "gps_latitude") /\ ~DictHas(d, "gps_latitude_ref")
        \/ DictHas(d, "gps_longitude") /\ ~DictHas(d, "gps_longitude_ref")

WithLatDecimal(d) ==
    IF DictHas(d, "gps_latitude")
    THEN DictSet(d, "gps_lat_decimal",
                 gps_decimal_coords(d.val["gps_latitude"].c,
                                    d.val["gps_latitude_ref"]))
    ELSE d

WithLonDecimal(d) ==
    IF DictHas(d, "gps_longitude")
    THEN DictSet(d, "gps_lon_decimal",
                 gps_decimal_coords(d.val["gps_longitude"].c,
                                    d.val["gps_longitude_ref"]))
    ELSE d

\* image_exif_data as appended to self.exif_table
ImageExifData(f) == WithLonDecimal(WithLatDecimal(RawRecord(f)))

\* the headings and the record's keys with the duplicates left in
NewFieldHeadings_concat(headings, d) == headings \o d.keys

\* the record's keys ahead of the headings already known
NewFieldHeadings_recordfirst(headings, d) == FromKeys(d.keys \o headings)

\* the headings left as they were
NewFieldHeadings_stale(headings, d) == headings

\* field_headings = list(dict.fromkeys(field_headings + list(image_exif_data)))
NewFieldHeadings(headings, d) == FromKeys(headings \o d.keys)

\* the two decimal fields not seeded
InitialFieldHeadings_filename_only == <<"filename">>

InitialFieldHeadings == <<"filename", "gps_lat_decimal", "gps_lon_decimal">>

(*************************************************************************)
(* ExifExtract.write_csv.                                                *)
(*************************************************************************)
\* ','.join(fields)
RECURSIVE Join(_)
Join(fields) ==
    IF fields = <<>> THEN <<>>
    ELSE IF Len(fields) = 1 THEN fields[1]
    ELSE fields[1] \o <<",">> \o Join(Tail(fields))

\* field.replace('"', '""')
RECURSIVE DoubleQuotes(_)
DoubleQuotes(s) ==
    IF s = <<>> THEN <<>>
    ELSE (IF Head(s) = Quote THEN <<Quote, Quote>> ELSE <<Head(s)>>)
         \o DoubleQuotes(Tail(s))

\* the quote characters left single
CsvField_nodoubling(row, key) ==
    LET field == IF DictHas(row, key) THEN Str(row.val[key]) ELSE <<>>
    IN  IF "," \in Range(field) THEN <<Quote>> \o field \o <<Quote>>
        ELSE field

CsvField(row, key) ==
    LET field == IF DictHas(row, key) THEN Str(row.val[key]) ELSE <<>>
        doubled == DoubleQuotes(field)
    IN  IF "," \in Range(doubled) THEN <<Quote>> \o doubled \o <<Quote>>
        ELSE doubled

HeaderLine(headings) == Join([i \in 1..Len(headings) |-> <<headings[i]>>])

BodyLine(row, headings) ==
    Join([i \in 1..Len(headings) |-> CsvField(row, headings[i])])

CsvLines(obj) ==
    <<HeaderLine(obj.field_headings)>>
    \o [j \in 1..Len(obj.exif_table) |->
            BodyLine(obj.exif_table[j], obj.field_headings)]

(*************************************************************************)
(* The run: ExifExtract(infilenames), then write_csv on the object.      *)
(*************************************************************************)
NoObject == [constructed |-> FALSE]

Init ==
    /\ infilenames \in SeqsUpTo(Files, MaxFiles)
    /\ idx = 0
    /\ opened = <<>>
    /\ exif_table = <<>>
    /\ field_headings = InitialFieldHeadings
    /\ exif_data = NoObject
    /\ outfile = <<>>
    /\ pc = "loop"
    /\ coords = <<0, 0, 0>>
    /\ ref = NoneValue
    /\ decimal_degrees = NoneValue

InLoop == pc = "loop" /\ idx < Len(infilenames)

CurrentFile == infilenames[idx + 1]

gpsUnchanged == UNCHANGED <<coords, ref, decimal_degrees>>

\* open(path_name, 'rb') fails: the error leaves __init__ as it is
RaiseOSError ==
    /\ InLoop
    /\ CurrentFile.kind = "unreadable"
    /\ opened' = Append(opened, idx + 1)
    /\ pc' = "OSError"
    /\ UNCHANGED <<infilenames, idx, exif_table, field_headings, exif_data, outfile>>
    /\ gpsUnchanged

\* the failing file skipped like one without metadata
RaiseExtractError_skip ==
    /\ InLoop
    /\ CurrentFile.kind = "corrupt"
    /\ opened' = Append(opened, idx + 1)
    /\ idx' = idx + 1
    /\ UNCHANGED <<infilenames, exif_table, field_headings, exif_data, outfile, pc>>
    /\ gpsUnchanged

\* file.read() or Image(image_bytes) raises: raise ExifExtract.ExtractError
RaiseExtractError ==
    /\ InLoop
    /\ CurrentFile.kind = "corrupt"
    /\ opened' = Append(opened, idx + 1)
    /\ pc' = "ExtractError"
    /\ UNCHANGED <<infilenames, idx, exif_table, field_headings, exif_data, outfile>>
    /\ gpsUnchanged

\* not my_image.has_exif: continue
SkipFile ==
    /\ InLoop
    /\ CurrentFile.kind = "noexif"
    /\ opened' = Append(opened, idx + 1)
    /\ idx' = idx + 1
    /\ UNCHANGED <<infilenames, exif_table, field_headings, exif_data, outfile, pc>>
    /\ gpsUnchanged

\* a raw GPS coordinate without its reference: the subscript raises KeyError
RaiseKeyError ==
    /\ InLoop
    /\ CurrentFile.kind = "exif"
    /\ RaisesKeyError(CurrentFile)
    /\ opened' = Append(opened, idx + 1)
    /\ pc' = "KeyError"
    /\ UNCHANGED <<infilenames, idx, exif_table, field_headings, exif_data, outfile>>
    /\ gpsUnchanged

\* the record is built, appended, and its keys join the field headings
ExtractFile ==
    /\ InLoop
    /\ CurrentFile.kind = "exif"
    /\ ~RaisesKeyError(CurrentFile)
    /\ opened' = Append(opened, idx + 1)
    /\ exif_table' = Append(exif_table, ImageExifData(CurrentFile))
    /\ field_headings' = NewFieldHeadings(field_headings, ImageExifData(CurrentFile))
    /\ idx' = idx + 1
    /\ UNCHANGED <<infilenames, exif_data, outfile, pc>>
    /\ gpsUnchanged

\* the loop is over: self.field_headings is set and the caller gets the object
Return ==
    /\ pc = "loop"
    /\ idx = Len(infilenames)
    /\ exif_data' = [constructed |-> TRUE, exif_table |-> exif_table,
                     field_headings |-> field_headings]
    /\ pc' = "constructed"
    /\ UNCHANGED <<infilenames, idx, opened, exif_table, field_headings, outfile>>
    /\ gpsUnchanged

\* except ExifExtract.ExtractError: write the message, sys.exit(1)
MainExit ==
    /\ pc = "ExtractError"
    /\ pc' = "exit1"
    /\ UNCHANGED <<infilenames, idx, opened, exif_table, field_headings,
                   exif_data, outfile>>
    /\ gpsUnchanged

\* exif_data.write_csv(outfile)
WriteCsv ==
    /\ pc = "constructed"
    /\ outfile' = outfile \o CsvLines(exif_data)
    /\ pc' = "written"
    /\ UNCHANGED <<infilenames, idx, opened, exif_table, field_headings, exif_data>>
    /\ gpsUnchanged

Next ==
    \/ RaiseOSError
    \/ RaiseExtractError
    \/ SkipFile
    \/ RaiseKeyError
    \/ ExtractFile
    \/ Return
    \/ MainExit
    \/ WriteCsv

Spec == Init /\ [][Next]_vars

(*************************************************************************)
(* gps_decimal_coords on its own, over a grid of arguments.              *)
(*************************************************************************)
Refs == {StrValue(<<"N">>), StrValue(<<"E">>), StrValue(<<"S">>),
         StrValue(<<"W">>), StrValue(<<"n">>), StrValue(<<>>), NoneValue}

InitGps ==
    /\ infilenames = <<>>
    /\ idx = 0
    /\ opened = <<>>
    /\ exif_table = <<>>
    /\ field_headings = InitialFieldHeadings
    /\ exif_data = NoObject
    /\ outfile = <<>>
    /\ pc = "call"
    /\ coords \in (0..MaxDeg) \X (0..MaxMin) \X (0..MaxSec)
    /\ ref \in Refs
    /\ decimal_degrees = NoneValue

CallGps ==
    /\ pc = "call"
    /\ decimal_degrees' = gps_decimal_coords(coords, ref)
    /\ pc' = "returned"
    /\ UNCHANGED <<infilenames, idx, opened, exif_table, field_headings,
                   exif_data, outfile, coords, ref>>

NextGps == CallGps

SpecGps == InitGps /\ [][NextGps]_vars

(*************************************************************************)
(* Vocabulary of the properties.                                         *)
(*************************************************************************)
NoDuplicates(q) == \A i, j \in 1..Len(q) : q[i] = q[j] => i = j

IsPrefix(a, b) == Len(a) <= Len(b) /\ SubSeq(b, 1, Len(a)) = a

StartsWith(q, a) == IsPrefix(a, q)

Suffix(q, n) == SubSeq(q, n + 1, Len(q))

\* the keys of a record that a schema does not hold, in the record's order
NewNames(keys, schema) == SelectSeq(keys, LAMBDA k : k \notin Range(schema))

GpsNames == {"gps_latitude", "gps_latitude_ref", "gps_longitude",
             "gps_longitude_ref"}

HasGps(f) == DOMAIN f.tags \cap GpsNames # {}

LatWithoutRef(f) ==
    f.kind = "exif" /\ "gps_latitude" \in DOMAIN f.tags
    /\ "gps_latitude_ref" \notin DOMAIN f.tags

LonWithoutRef(f) ==
    f.kind = "exif" /\ "gps_longitude" \in DOMAIN f.tags
    /\ "gps_longitude_ref" \notin DOMAIN f.tags

AllDecode ==
    \A n \in 1..Len(infilenames) : infilenames[n].kind \in {"noexif", "exif"}

\* the paths of the files that have metadata, in input order
MetadataPaths ==
    LET with == SelectSeq(infilenames, LAMBDA f : f.kind = "exif")
    IN  [j \in 1..Len(with) |-> StrValue(with[j].path)]

TablePaths(table) == [j \in 1..Len(table) |-> table[j].val["filename"]]

QuoteCount(s) == Cardinality({i \in 1..Len(s) : s[i] = Quote})

\* a CSV reader's split of a line at the commas outside quotes
RECURSIVE SplitFrom(_, _, _, _)
SplitFrom(s, done, cur, inq) ==
    IF s = <<>> THEN Append(done, cur)
    ELSE IF Head(s) = Quote
         THEN SplitFrom(Tail(s), done, Append(cur, Quote), ~inq)
    ELSE IF Head(s) = "," /\ ~inq
         THEN SplitFrom(Tail(s), Append(done, cur), <<>>, inq)
    ELSE SplitFrom(Tail(s), done, Append(cur, Head(s)), inq)

SplitLine(s) == SplitFrom(s, <<>>, <<>>, FALSE)

\* a CSV reader's unescaping: each pair of quotes is one quote; a quote
\* that is not one of a pair is marked, so that it matches no value
RECURSIVE Undouble(_)
Undouble(s) ==
    IF s = <<>> THEN <<>>
    ELSE IF Head(s) # Quote THEN <<Head(s)>> \o Undouble(Tail(s))
    ELSE IF Len(s) >= 2 /\ s[2] = Quote THEN <<Quote>> \o Undouble(Tail(Tail(s)))
    ELSE <<"unpaired">> \o Undouble(Tail(s))

(*************************************************************************)
(* The properties.                                                       *)
(*************************************************************************)

\* C1: the field headings hold no name twice, after every file of a run
\* and in the object the caller gets, whatever mix of files is processed.
C1_NoDuplicateHeadings ==
    /\ NoDuplicates(field_headings)
    /\ exif_data.constructed => NoDuplicates(exif_data.field_headings)

\* two files with metadata that share field names have been processed
C1_Witness ==
    /\ pc = "constructed"
    /\ Len(exif_data.exif_table) >= 2
    /\ DictHas(exif_data.exif_table[1], "make")
    /\ DictHas(exif_data.exif_table[2], "make")

\* C2: every step leaves the old field headings as a prefix of the new;
\* a step that appends a record adds exactly the record's keys that the
\* headings did not hold, in the record's order; any other step (a file
\* without metadata among them) leaves the headings as they were.
C2_AppendOnly ==
    [][/\ IsPrefix(field_headings, field_headings')
       /\ Len(exif_table') = Len(exif_table) + 1 =>
              Suffix(field_headings', Len(field_headings))
                  = NewNames(exif_table'[Len(exif_table')].keys, field_headings)
       /\ exif_table' = exif_table => field_headings' = field_headings
       /\ (InLoop /\ CurrentFile.kind = "noexif") =>
              (idx' = idx + 1 /\ field_headings' = field_headings)]_vars

\* a file without metadata was skipped and a later record added names
\* behind those an earlier record had added
C2_Witness ==
    /\ idx = 3
    /\ infilenames[2].kind = "noexif"
    /\ Len(exif_table) = 2
    /\ Len(field_headings) > Len(NewFieldHeadings(InitialFieldHeadings, exif_table[1]))
    /\ Len(NewFieldHeadings(InitialFieldHeadings, exif_table[1]))
           > Len(InitialFieldHeadings)

\* C3: every key of every record of the result table, 'filename' and the
\* derived decimal keys included, is among the field headings, after
\* every file and in the object the caller gets.
C3_RecordKeysInHeadings ==
    /\ \A j \in 1..Len(exif_table) :
           Range(exif_table[j].keys) \subseteq Range(field_headings)
    /\ exif_data.constructed =>
           \A j \in 1..Len(exif_data.exif_table) :
               Range(exif_data.exif_table[j].keys)
                   \subseteq Range(exif_data.field_headings)

\* a record with both derived keys and one with keys of its own are in
\* the table
C3_Witness ==
    /\ pc = "constructed"
    /\ \E j \in 1..Len(exif_data.exif_table) :
           {"filename", "gps_lat_decimal", "gps_lon_decimal", "gps_longitude"}
               \subseteq Range(exif_data.exif_table[j].keys)
    /\ \E j \in 1..Len(exif_data.exif_table) :
           "software" \in Range(exif_data.exif_table[j].keys)

\* C4: a file the decoder fails on ends the run with ExtractError at that
\* file: no file behind it is ever opened, the caller never gets an object
\* (so no table and no headings, not even of the files before it) and
\* nothing is written.
C4_DecodeFailureAborts ==
    /\ \A n \in 1..Len(infilenames) :
           infilenames[n].kind = "corrupt" =>
               /\ idx < n
               /\ \A m \in Range(opened) : m <= n
               /\ n \in Range(opened) => pc \in {"ExtractError", "exit1"}
               /\ exif_data = NoObject
               /\ outfile = <<>>
    /\ pc \in {"ExtractError", "exit1"} =>
           /\ CurrentFile.kind = "corrupt"
           /\ opened = [i \in 1..(idx + 1) |-> i]

\* the decoder failed on the second of three files, after a record
C4_Witness ==
    /\ pc = "exit1"
    /\ Len(infilenames) = 3
    /\ idx = 1
    /\ Len(exif_table) = 1
    /\ infilenames[3].kind = "exif"

\* C5: in a batch in which every file decodes, once the constructor has
\* ended the caller holds a result table with exactly one record per file
\* that has metadata, in input order (a file without metadata adds none and
\* ends nothing), and write_csv writes one header line and then one body
\* line per record, in the same order.
C5_OneRecordPerMetadataFile ==
    (AllDecode /\ pc # "loop") =>
        /\ exif_data.constructed
        /\ TablePaths(exif_data.exif_table) = MetadataPaths
        /\ pc = "written" =>
               /\ Len(outfile) = 1 + Len(exif_data.exif_table)
               /\ outfile[1] = HeaderLine(exif_data.field_headings)
               /\ \A j \in 1..Len(exif_data.exif_table) :
                      SplitLine(outfile[j + 1])[1]
                          = CsvField(exif_data.exif_table[j], "filename")

\* The same, of the runs whose constructor returns: what is left of C5
\* when no file of the batch has a raw coordinate without its reference.
C5_WhenConstructed ==
    exif_data.constructed =>
        /\ TablePaths(exif_data.exif_table) = MetadataPaths
        /\ pc = "written" =>
               /\ Len(outfile) = 1 + Len(exif_data.exif_table)
               /\ outfile[1] = HeaderLine(exif_data.field_headings)
               /\ \A j \in 1..Len(exif_data.exif_table) :
                      SplitLine(outfile[j + 1])[1]
                          = CsvField(exif_data.exif_table[j], "filename")

\* C6: a file whose record has a raw GPS coordinate without its reference
\* raises no error: the step that processes it appends its record, without
\* the decimal field of that coordinate, and the loop goes on to the next
\* file.
C6_MissingRefSkipsDerivation ==
    [][(InLoop /\ (LatWithoutRef(CurrentFile) \/ LonWithoutRef(CurrentFile))) =>
          /\ pc' = "loop"
          /\ idx' = idx + 1
          /\ Len(exif_table') = Len(exif_table) + 1
          /\ LatWithoutRef(CurrentFile) =>
                 ~DictHas(exif_table'[Len(exif_table')], "gps_lat_decimal")
          /\ LonWithoutRef(CurrentFile) =>
                 ~DictHas(exif_table'[Len(exif_table')], "gps_lon_decimal")]_vars

\* C7 as stated: file A and then file B give exactly the five headings
\* filename, gps_lat_decimal, gps_lon_decimal, make, model.
C7_FiveHeadings ==
    (infilenames = <<FileA, FileB>> /\ pc = "constructed") =>
        exif_data.field_headings
            = <<"filename", "gps_lat_decimal", "gps_lon_decimal", "make", "model">>

\* C7, amended: file A and then file B give the headings filename,
\* gps_lat_decimal, gps_lon_decimal, then the four raw GPS names of A in
\* sorted order, then make, then model.
C7_NineHeadings ==
    (infilenames = <<FileA, FileB>> /\ pc = "constructed") =>
        exif_data.field_headings
            = <<"filename", "gps_lat_decimal", "gps_lon_decimal", "gps_latitude",
                "gps_latitude_ref", "gps_longitude", "gps_longitude_ref",
                "make", "model">>

\* the scenario's run has returned its object
C7_Witness ==
    /\ infilenames = <<FileA, FileB>>
    /\ pc = "constructed"
    /\ Len(exif_data.exif_table) = 2

NoFileHasGps == \A n \in 1..Len(infilenames) : ~HasGps(infilenames[n])

\* C8 as stated: the final headings hold gps_lat_decimal or
\* gps_lon_decimal only if some processed file had GPS data.
C8_DecimalOnlyWithGps ==
    (exif_data.constructed /\ NoFileHasGps) =>
        /\ "gps_lat_decimal" \notin Range(exif_data.field_headings)
        /\ "gps_lon_decimal" \notin Range(exif_data.field_headings)

\* C8, amended: gps_lat_decimal and gps_lon_decimal are the second and the
\* third heading at every point of every run, whether or not a file had GPS
\* data, and so in the final headings and in the CSV header.
C8_DecimalAlwaysSeeded ==
    /\ StartsWith(field_headings, <<"filename", "gps_lat_decimal", "gps_lon_decimal">>)
    /\ exif_data.constructed =>
           StartsWith(exif_data.field_headings,
                      <<"filename", "gps_lat_decimal", "gps_lon_decimal">>)
    /\ pc = "written" =>
           StartsWith(outfile[1],
                      <<"filename", ",", "gps_lat_decimal", ",", "gps_lon_decimal">>)

\* a batch without GPS data, with a record, has been written
C8_Witness ==
    /\ pc = "written"
    /\ NoFileHasGps
    /\ Len(exif_data.exif_table) >= 1

\* C9: every body line splits into one field per heading, in heading
\* order; the field of a key the record lacks is empty; the field of a
\* value whose text has a comma is that text, every quote doubled, between
\* two quotes; the field of any other value is its text with every quote
\* doubled and nothing around it.
C9_BodyLineFields ==
    pc = "written" =>
        \A j \in 1..Len(exif_data.exif_table) :
            LET row == exif_data.exif_table[j]
                headings == exif_data.field_headings
                fields == SplitLine(outfile[j + 1])
            IN  /\ Len(fields) = Len(headings)
                /\ \A i \in 1..Len(headings) :
                       IF ~DictHas(row, headings[i]) THEN fields[i] = <<>>
                       ELSE LET text == Str(row.val[headings[i]])
                                wrapped == "," \in Range(text)
                                f == fields[i]
                                body == IF wrapped THEN SubSeq(f, 2, Len(f) - 1)
                                        ELSE f
                            IN  /\ wrapped =>
                                       /\ Len(f) >= 2
                                       /\ f[1] = Quote
                                       /\ f[Len(f)] = Quote
                                /\ Undouble(body) = text
                                /\ QuoteCount(body) = 2 * QuoteCount(text)

\* the written table has a value with a comma, one with a quote and no
\* comma, one with both, a tuple, and records that lack headings
C9_Witness ==
    /\ pc = "written"
    /\ Range(infilenames) = {FileA, FileB, FileC}

\* C10: for non-negative degrees, minutes and seconds the value returned
\* is deg + min/60 + sec/3600, with a negative sign exactly when the
\* reference is S or W; for N, E and any other reference it is not negated.
C10_DecimalDegrees ==
    pc = "returned" =>
        /\ decimal_degrees.num * 3600
               = (coords[1] * 3600 + coords[2] * 60 + coords[3]) * decimal_degrees.den
        /\ decimal_degrees.den > 0
        /\ decimal_degrees.neg = (ref \in {StrValue(<<"S">>), StrValue(<<"W">>)})

\* a western coordinate with minutes and seconds has been converted
C10_Witness ==
    /\ pc = "returned"
    /\ ref = StrValue(<<"W">>)
    /\ coords = <<1, 2, 3>>
    /\ decimal_degrees.neg

=============================================================================
